---- MODULE Spec2Model ----
(***************************************************************************)
(* Model of qan/analyzer/mongo/profiler/aggregator/aggregator.go: the      *)
(* interval-windowed aggregator of system.profile documents.               *)
(*                                                                         *)
(* Time is counted in whole seconds since the Unix epoch; time.Second is   *)
(* the unit, so D == config.Interval.  The mongolib stats engine is kept   *)
(* as the sequence of documents it accepted since its last Reset.          *)
(***************************************************************************)
EXTENDS Integers, Sequences, FiniteSets, TLC

\* ---------------------------------------------------------------- bounds
\* number of whole durations the clock and the documents' timestamps span
MaxWindows == 2
\* largest number of documents the stats engine holds in the model
MaxEvents == 2

\* bits of uint and uint64 kept by the model (64 in the build)
UintBits == 16
\* durations and instants Truncate is applied to on its own
MaxDuration == 8
MaxInstant == 20

\* ------------------------------------------------------ program constants
DefaultInterval == 60
DefaultExampleQueries == TRUE

\* time.Time's zero instant is 0001-01-01 00:00:00 UTC; it lies
\* DaysToUnixEpoch * SecondsPerDay seconds before the Unix epoch.
DaysToUnixEpoch == 719162
SecondsPerDay == 86400

\* ------------------------------------------------------------ time.Time
Before(t, u) == t < u

\* the multiples of d counted from the Unix epoch
Truncate_fromUnixEpoch(t, d) == IF d <= 0 THEN t ELSE t - (t % d)

\* seconds from time.Time's zero instant to the Unix epoch, modulo d
ZeroOffsetMod(d) == ((DaysToUnixEpoch % d) * (SecondsPerDay % d)) % d

\* Time.Truncate: round t down to a multiple of d since the zero time;
\* d <= 0 returns t unchanged
Truncate(t, d) == IF d <= 0 THEN t ELSE t - (((t % d) + ZeroOffsetMod(d)) % d)

\* ------------------------------------------------------------ input sets
Nil == "nil"
\* a nil *qan.Report, and the absence of a document
NoReport == [nil |-> TRUE]
NoDoc == [nil |-> TRUE, ts |-> 0]
Free == "free"
Fingerprints == <<"Q1", "Q2">>
\* config.Interval values handed to New: 0 asks for the defaults (a duration
\* that divides a day), 7 is a duration that does not divide a day
Intervals == {0, 7}
ConfigInputs == [Interval : Intervals, ExampleQueries : BOOLEAN]

\* the instants used as inputs for duration d: the first and the last second
\* of each of the first MaxWindows + 1 durations that start in or after 1970
Instants(d) == {Truncate(d - 1, d) + k * d + o : k \in 0 .. MaxWindows, o \in {0, d - 1}}

\* proto.SystemProfile documents: the timestamp, the fingerprint its query
\* has, and whether the stats engine fails to fingerprint it
Docs(d) == [ts : Instants(d), fp : {Fingerprints[i] : i \in 1 .. Len(Fingerprints)},
            bad : BOOLEAN]

VARIABLES config, D, timeStart, timeEnd, stats,
          last, reports, unreported,
          mutex, pc, loc, obs, calc

vars == <<config, D, timeStart, timeEnd, stats, last, reports, unreported,
          mutex, pc, loc, obs, calc>>
aggVars == <<config, D, timeStart, timeEnd, stats>>
threadVars == <<mutex, pc, loc, obs, calc>>

\* the Aggregator struct as one value
Self == [config |-> config, D |-> D, timeStart |-> timeStart,
         timeEnd |-> timeEnd, stats |-> stats]

\* ------------------------------------------------------- stats engine
\* stats.Add: a document that cannot be fingerprinted is refused with an
\* error and not accumulated
StatsAdd(st, doc) ==
    IF doc.bad THEN [stats |-> st, err |-> "error"]
    ELSE [stats |-> Append(st, doc), err |-> Nil]

StatsReset(st) == << >>

CountOf(st, fp) == Cardinality({i \in 1 .. Len(st) : st[i].fp = fp})

\* stats.Statistics of one measurement
Statistics(total, min, avg, median, pct95, max) ==
    [Total |-> total, Min |-> min, Avg |-> avg, Median |-> median,
     Pct95 |-> pct95, Max |-> max]
Flat(v) == Statistics(v, v, v, v, v, v)

\* stats.Queries and CalcQueriesStats: one summary per distinct fingerprint,
\* in the engine's (sorted) order.  The documents of the model carry no
\* measurements: the statistics of their summaries are zero.
Queries(st) ==
    LET info(fp) == [Fingerprint |-> fp, Namespace |-> << "test", "coll" >>,
                     Count |-> CountOf(st, fp),
                     QueryTime |-> Flat(0), ResponseLength |-> Flat(0),
                     Returned |-> Flat(0), Scanned |-> Flat(0)]
        all == [i \in 1 .. Len(Fingerprints) |-> info(Fingerprints[i])]
    IN SelectSeq(all, LAMBDA q : q.Count > 0)

\* ------------------------------------------------------- createResult
RECURSIVE SumTotal(_)
SumTotal(classes) ==
    IF classes = << >> THEN 0
    ELSE Head(classes).TotalQueries + SumTotal(Tail(classes))

UintRange == 2 ^ UintBits

\* the conversion uint(x) of an int: the low bits of x
ToUint(x) == x % UintRange

\* the outcomes of uint64(x) for a float64 x below zero depend on the
\* build: the low bits of int64(x), or zero
Builds == {"wraps", "saturates"}
FloatToUint64(x, build) ==
    IF x >= 0 THEN x
    ELSE IF build = "saturates" THEN 0 ELSE x % UintRange

newEventNumberStats(s, build) ==
    [Sum |-> FloatToUint64(s.Total, build),
     Min |-> FloatToUint64(s.Min, build),
     Avg |-> FloatToUint64(s.Avg, build),
     Med |-> FloatToUint64(s.Median, build),
     P95 |-> FloatToUint64(s.Pct95, build),
     Max |-> FloatToUint64(s.Max, build)]

\* the statistic passed on without the division
InMilliseconds_undivided(x) == [whole |-> x, thousandths |-> 0]

\* x / 1000 on float64: the quotient with its fraction, kept as whole
\* units and thousandths
InMilliseconds(x) == [whole |-> x \div 1000, thousandths |-> x % 1000]

newEventTimeStatsInMilliseconds(s) ==
    [Sum |-> InMilliseconds(s.Total),
     Min |-> InMilliseconds(s.Min),
     Avg |-> InMilliseconds(s.Avg),
     Med |-> InMilliseconds(s.Median),
     P95 |-> InMilliseconds(s.Pct95),
     Max |-> InMilliseconds(s.Max)]

\* strings.SplitN(namespace, ".", 2): the namespace is kept as its parts
Db(namespace) == IF Len(namespace) = 2 THEN namespace[1] ELSE ""

NoExample == [nil |-> TRUE]

\* the class of one summary, lines 134-160
NewClass(queryInfo, cfg, build) ==
    [Fingerprint |-> queryInfo.Fingerprint,
     Example |-> IF cfg.ExampleQueries
                 THEN [QueryTime |-> queryInfo.QueryTime.Total,
                       Db |-> Db(queryInfo.Namespace)]
                 ELSE NoExample,
     Metrics |-> [Query_time |-> newEventTimeStatsInMilliseconds(queryInfo.QueryTime),
                  Bytes_sent |-> newEventNumberStats(queryInfo.ResponseLength, build),
                  Rows_sent |-> newEventNumberStats(queryInfo.Returned, build),
                  Rows_examined |-> newEventNumberStats(queryInfo.Scanned, build)],
     TotalQueries |-> ToUint(queryInfo.Count),
     UniqueQueries |-> 1]

\* the class counted once instead of with its queries
AddClass_countsClasses(global, class) ==
    [global EXCEPT !.UniqueQueries = @ + 1, !.TotalQueries = ToUint(@ + 1)]

\* event.Class.AddClass, the counts
AddClass(global, class) ==
    [global EXCEPT !.UniqueQueries = @ + 1,
                   !.TotalQueries = ToUint(@ + class.TotalQueries)]

\* the loop of createResult over the summaries
RECURSIVE BuildResult(_, _, _, _)
BuildResult(queryStats, cfg, build, result) ==
    IF queryStats = << >> THEN result
    ELSE LET class == NewClass(Head(queryStats), cfg, build)
         IN BuildResult(Tail(queryStats), cfg, build,
                        [Global |-> AddClass(result.Global, class),
                         Class |-> Append(result.Class, class)])

EmptyResult == [Global |-> [TotalQueries |-> 0, UniqueQueries |-> 0],
                Class |-> << >>]

\* the summaries of the engine of the model hold no negative statistic, for
\* which every build converts alike
createResult(self) ==
    BuildResult(Queries(self.stats), self.config, "wraps", EmptyResult)

\* report.MakeReport: the result stamped with the given bounds
MakeReport(cfg, start, end, result) ==
    [StartTs |-> start, EndTs |-> end, Class |-> result.Class,
     Global |-> result.Global]

\* ------------------------------------------------------- newInterval
ResetStats(self) == [self EXCEPT !.stats = StatsReset(self.stats)]

\* the truncation left out
SetTimeStart_raw(self, ts) == [self EXCEPT !.timeStart = ts]

SetTimeStart(self, ts) == [self EXCEPT !.timeStart = Truncate(ts, self.D)]
SetTimeEnd(self) == [self EXCEPT !.timeEnd = self.timeStart + self.D]

newInterval(self, ts) == SetTimeEnd(SetTimeStart(ResetStats(self), ts))

\* ------------------------------------------------------------ interval
\* the interval's end taken as still inside the interval
SameInterval_inclusive(self, ts) == ~Before(self.timeEnd, ts)

\* "if time is before interval end then we are still in the same interval"
SameInterval(self, ts) == Before(ts, self.timeEnd)

\* the check for an empty interval left out
NothingToSend_never(self) == FALSE

\* "if there are no queries then we don't create report"
NothingToSend(self) == Len(Queries(self.stats)) = 0

\* the report built after the engine's reset
IntervalReport_afterReset(self) ==
    IF NothingToSend(ResetStats(self)) THEN NoReport
    ELSE MakeReport(self.config, self.timeStart, self.timeEnd,
                    createResult(ResetStats(self)))

\* the value interval returns once the interval has ended; the deferred
\* newInterval runs after it is computed
IntervalReport(self) ==
    IF NothingToSend(self) THEN NoReport
    ELSE MakeReport(self.config, self.timeStart, self.timeEnd, createResult(self))

\* newInterval called at the end instead of deferred: skipped by the early
\* return of an empty interval
interval_noDefer(self, ts) ==
    IF SameInterval(self, ts) \/ NothingToSend(self)
    THEN [self |-> self, report |-> NoReport]
    ELSE [self |-> newInterval(self, ts), report |-> IntervalReport(self)]

interval(self, ts) ==
    IF SameInterval(self, ts) THEN [self |-> self, report |-> NoReport]
    ELSE [self |-> newInterval(self, ts), report |-> IntervalReport(self)]

\* ----------------------------------------------------------------- Add
\* the comparison's operands swapped
IsOld_swapped(self, ts) == Before(self.timeStart, ts)

\* the check for old metrics left out
IsOld_never(self, ts) == FALSE

\* "skip old metrics"
IsOld(self, ts) == Before(ts, self.timeStart)

\* the document accumulated before the interval is checked
Add_accumulateFirst(self, doc) ==
    LET ts == doc.ts
        a == StatsAdd(self.stats, doc)
        r == interval([self EXCEPT !.stats = a.stats], ts)
    IN IF IsOld(self, ts)
       THEN [self |-> self, report |-> NoReport, err |-> Nil, statsAdd |-> FALSE]
       ELSE [self |-> r.self, report |-> r.report, err |-> a.err, statsAdd |-> TRUE]

\* an accumulation error returned before the interval is checked
Add_errorFirst(self, doc) ==
    LET ts == doc.ts
        a == StatsAdd(self.stats, doc)
        r == interval(self, ts)
        b == StatsAdd(r.self.stats, doc)
    IN IF IsOld(self, ts)
       THEN [self |-> self, report |-> NoReport, err |-> Nil, statsAdd |-> FALSE]
       ELSE IF a.err # Nil
       THEN [self |-> self, report |-> NoReport, err |-> a.err, statsAdd |-> TRUE]
       ELSE [self |-> [r.self EXCEPT !.stats = b.stats], report |-> r.report,
             err |-> b.err, statsAdd |-> TRUE]

Add(self, doc) ==
    LET ts == doc.ts
        r == interval(self, ts)
        a == StatsAdd(r.self.stats, doc)
    IN IF IsOld(self, ts)
       THEN [self |-> self, report |-> NoReport, err |-> Nil, statsAdd |-> FALSE]
       ELSE [self |-> [r.self EXCEPT !.stats = a.stats], report |-> r.report,
             err |-> a.err, statsAdd |-> TRUE]

\* -------------------------------------------------------------- Report
\* a new interval started whether or not the current one has ended
Report_forced(self, now) ==
    [self |-> newInterval(self, now), report |-> IntervalReport(self),
     err |-> Nil, statsAdd |-> FALSE]

Report(self, now) ==
    LET r == interval(self, now)
    IN [self |-> r.self, report |-> r.report, err |-> Nil, statsAdd |-> FALSE]

\* ----------------------------------------------------------------- New
\* the default of ExampleQueries not applied with the default interval
VerifyConfig_intervalOnly(cfg) ==
    IF cfg.Interval = 0
    THEN [Interval |-> DefaultInterval, ExampleQueries |-> cfg.ExampleQueries]
    ELSE cfg

VerifyConfig(cfg) ==
    IF cfg.Interval = 0
    THEN [Interval |-> DefaultInterval, ExampleQueries |-> DefaultExampleQueries]
    ELSE cfg

\* the Aggregator before its first newInterval
Zero(cfg) ==
    LET c == VerifyConfig(cfg)
    IN [config |-> c, D |-> c.Interval, timeStart |-> 0, timeEnd |-> 0,
        stats |-> << >>]

\* the first interval started at the given start, not at its truncation
New_untruncated(start, cfg) == SetTimeEnd(SetTimeStart_raw(ResetStats(Zero(cfg)), start))

New(start, cfg) == newInterval(Zero(cfg), start)

\* ------------------------------------------------------- bookkeeping
Store(self) ==
    /\ config' = self.config
    /\ D' = self.D
    /\ timeStart' = self.timeStart
    /\ timeEnd' = self.timeEnd
    /\ stats' = self.stats

\* the record of the call that completed last: its input, the aggregator
\* before it and what it returned
\* first: the call is the first one after New; initialStart: the start
\* New was given, kept for the first call only
Call(op, ts, doc, pre, res) ==
    [op |-> op, ts |-> ts, doc |-> doc, pre |-> pre, post |-> res.self,
     report |-> res.report, err |-> res.err, statsAdd |-> res.statsAdd,
     first |-> last.op = "New",
     initialStart |-> IF last.op = "New" THEN last.initialStart ELSE 0]

Window(rep) == [StartTs |-> rep.StartTs, EndTs |-> rep.EndTs]

Returned(res) ==
    /\ reports' = IF res.report = NoReport THEN reports
                  ELSE Append(reports, Window(res.report))
    /\ unreported' = unreported
                     - (IF res.report = NoReport THEN 0 ELSE SumTotal(res.report.Class))
                     + (IF res.statsAdd /\ res.err = Nil THEN 1 ELSE 0)

Threads == {"t1", "t2"}
Reader == "r"

InitAggregator(cfgs) ==
    \E cfg \in cfgs :
      \E start \in Instants(VerifyConfig(cfg).Interval) :
        LET a == New(start, cfg)
        IN /\ config = a.config
           /\ D = a.D
           /\ timeStart = a.timeStart
           /\ timeEnd = a.timeEnd
           /\ stats = a.stats
           /\ last = [op |-> "New", ts |-> start, doc |-> NoDoc, pre |-> Zero(cfg),
                      post |-> a, report |-> NoReport, err |-> Nil,
                      statsAdd |-> FALSE, first |-> FALSE,
                      initialStart |-> start, cfg |-> cfg]
           /\ reports = << >>
           /\ unreported = 0

\* the locals of a call that has not started
NoCall == [op |-> Nil, doc |-> NoDoc, ts |-> 0, pre |-> Zero([Interval |-> 0, ExampleQueries |-> TRUE]),
           report |-> NoReport, err |-> Nil, statsAdd |-> FALSE]
\* no function applied on its own
NoCalc == [f |-> Nil]
NoRead == [start |-> 0, end |-> 0, complete |-> FALSE, mid |-> FALSE]

InitThreads ==
    /\ mutex = Free
    /\ pc = [t \in Threads \cup {Reader} |-> "idle"]
    /\ loc = [t \in Threads |-> NoCall]
    /\ obs = NoRead
    /\ calc = NoCalc

Init == InitAggregator(ConfigInputs) /\ InitThreads

\* ------------------------------------------------ calls, one at a time
DoAdd ==
    \E doc \in Docs(D) :
      LET res == Add(Self, doc)
      IN /\ Len(res.self.stats) <= MaxEvents
         /\ Store(res.self)
         /\ last' = Call("Add", doc.ts, doc, Self, res)
         /\ Returned(res)
         /\ UNCHANGED threadVars

DoReport ==
    \E now \in Instants(D) :
      LET res == Report(Self, now)
      IN /\ Store(res.self)
         /\ last' = Call("Report", now, NoDoc, Self, res)
         /\ Returned(res)
         /\ UNCHANGED threadVars

Next == DoAdd \/ DoReport

Spec == Init /\ [][Next]_vars

\* ------------------------------------------- calls from several threads
\* The statements of Add, Report, interval and newInterval as steps of the
\* calling thread; TimeStart and TimeEnd as steps of a reading thread.
AtLock == {"Add64", "Report79"}

\* sync.Mutex.Lock returns only while no other call holds the mutex
CanLock_always(m) == TRUE

CanLock(m) == m = Free

Goto(t, label) == pc' = [pc EXCEPT ![t] = label]
SetLoc(t, l) == loc' = [loc EXCEPT ![t] = l]
ghostVars == <<last, reports, unreported>>

CallAdd(t) ==
    /\ pc[t] = "idle"
    /\ Goto(t, "Add64")
    /\ UNCHANGED <<calc, aggVars, ghostVars, mutex, loc, obs>>

CallReport(t) ==
    /\ pc[t] = "idle"
    /\ Goto(t, "Report79")
    /\ UNCHANGED <<calc, aggVars, ghostVars, mutex, loc, obs>>

Lock(t) ==
    /\ pc[t] \in AtLock
    /\ CanLock(mutex)
    /\ mutex' = t
    /\ SetLoc(t, [NoCall EXCEPT !.op = IF pc[t] = "Add64" THEN "Add" ELSE "Report",
                                !.pre = Self])
    /\ Goto(t, IF pc[t] = "Add64" THEN "Add67" ELSE "Report82")
    /\ UNCHANGED <<calc, aggVars, ghostVars, obs>>

\* the documents the threads add: those of the first fingerprint
ThreadDocs(d) == {doc \in Docs(d) : doc.fp = Fingerprints[1]}

Add67(t) ==
    /\ pc[t] = "Add67"
    /\ \E doc \in ThreadDocs(D) :
         /\ \/ Len(stats) < MaxEvents
            \/ doc.bad
            \/ IsOld(Self, doc.ts)
            \/ ~SameInterval(Self, doc.ts)
         /\ SetLoc(t, [loc[t] EXCEPT !.doc = doc, !.ts = doc.ts])
         /\ Goto(t, IF IsOld(Self, doc.ts) THEN "Unlock" ELSE "interval88")
    /\ UNCHANGED <<calc, aggVars, ghostVars, mutex, obs>>

Report82(t) ==
    /\ pc[t] = "Report82"
    /\ \E now \in Instants(D) : SetLoc(t, [loc[t] EXCEPT !.ts = now])
    /\ Goto(t, "interval88")
    /\ UNCHANGED <<calc, aggVars, ghostVars, mutex, obs>>

AfterInterval(t) == IF loc[t].op = "Add" THEN "Add74" ELSE "Unlock"

Interval88(t) ==
    /\ pc[t] = "interval88"
    /\ Goto(t, IF SameInterval(Self, loc[t].ts) THEN AfterInterval(t) ELSE "interval96")
    /\ UNCHANGED <<calc, aggVars, ghostVars, mutex, loc, obs>>

Interval96(t) ==
    /\ pc[t] = "interval96"
    /\ SetLoc(t, [loc[t] EXCEPT !.report = IntervalReport(Self)])
    /\ Goto(t, "newInterval120")
    /\ UNCHANGED <<calc, aggVars, ghostVars, mutex, obs>>

NewInterval120(t) ==
    /\ pc[t] = "newInterval120"
    /\ Store(ResetStats(Self))
    /\ Goto(t, "newInterval123")
    /\ UNCHANGED <<calc, ghostVars, mutex, loc, obs>>

NewInterval123(t) ==
    /\ pc[t] = "newInterval123"
    /\ Store(SetTimeStart(Self, loc[t].ts))
    /\ Goto(t, "newInterval125")
    /\ UNCHANGED <<calc, ghostVars, mutex, loc, obs>>

NewInterval125(t) ==
    /\ pc[t] = "newInterval125"
    /\ Store(SetTimeEnd(Self))
    /\ Goto(t, AfterInterval(t))
    /\ UNCHANGED <<calc, ghostVars, mutex, loc, obs>>

Add74(t) ==
    /\ pc[t] = "Add74"
    /\ LET a == StatsAdd(stats, loc[t].doc)
       IN /\ Store([Self EXCEPT !.stats = a.stats])
          /\ SetLoc(t, [loc[t] EXCEPT !.err = a.err, !.statsAdd = TRUE])
    /\ Goto(t, "Unlock")
    /\ UNCHANGED <<calc, ghostVars, mutex, obs>>

\* what the call of thread t returns, and the aggregator it leaves
Result(t) == [self |-> Self, report |-> loc[t].report, err |-> loc[t].err,
              statsAdd |-> loc[t].statsAdd]

\* Unlock called before each return instead of deferred, and forgotten
\* before the return of an old document
Unlock_unlessOld(t) ==
    /\ pc[t] = "Unlock"
    /\ mutex' = IF loc[t].op = "Add" /\ ~loc[t].statsAdd THEN mutex ELSE Free
    /\ Returned(Result(t))
    /\ SetLoc(t, NoCall)
    /\ Goto(t, "idle")
    /\ UNCHANGED <<calc, aggVars, last, obs>>

\* the deferred Unlock, run at every return
Unlock(t) ==
    /\ pc[t] = "Unlock"
    /\ mutex' = Free
    /\ Returned(Result(t))
    /\ SetLoc(t, NoCall)
    /\ Goto(t, "idle")
    /\ UNCHANGED <<calc, aggVars, last, obs>>

\* a thread is between the assignments of timeStart and timeEnd
MidRotation == \E t \in Threads : pc[t] = "newInterval125"

TimeStart ==
    /\ pc[Reader] = "idle"
    /\ obs' = [NoRead EXCEPT !.start = timeStart, !.mid = MidRotation]
    /\ Goto(Reader, "TimeEnd")
    /\ UNCHANGED <<calc, aggVars, ghostVars, mutex, loc>>

TimeEnd ==
    /\ pc[Reader] = "TimeEnd"
    /\ obs' = [obs EXCEPT !.end = timeEnd, !.complete = TRUE,
                          !.mid = obs.mid \/ MidRotation]
    /\ Goto(Reader, "idle")
    /\ UNCHANGED <<calc, aggVars, ghostVars, mutex, loc>>

InitT == InitAggregator(ConfigInputs) /\ InitThreads

Step(t) ==
    \/ CallAdd(t)
    \/ CallReport(t)
    \/ Lock(t)
    \/ Add67(t)
    \/ Report82(t)
    \/ Interval88(t)
    \/ Interval96(t)
    \/ NewInterval120(t)
    \/ NewInterval123(t)
    \/ NewInterval125(t)
    \/ Add74(t)
    \/ Unlock(t)

\* Add and Report called from two threads
NextT == \E t \in Threads : Step(t)

SpecT == InitT /\ [][NextT]_vars

\* the statements of a call past Lock
Body(t) ==
    \/ Add67(t)
    \/ Report82(t)
    \/ Interval88(t)
    \/ Interval96(t)
    \/ NewInterval120(t)
    \/ NewInterval123(t)
    \/ NewInterval125(t)
    \/ Add74(t)
    \/ Unlock(t)

\* every thread keeps running, and sync.Mutex hands the mutex to a caller
\* that keeps waiting for it (its starvation mode)
\* one aggregator, started at the first instant of the inputs
InitFair ==
    /\ InitAggregator({[Interval |-> 7, ExampleQueries |-> FALSE]})
    /\ InitThreads
    /\ last.ts = Truncate(D - 1, D)

SpecTFair ==
    /\ InitFair
    /\ [][NextT]_vars
    /\ \A t \in Threads : WF_vars(Body(t)) /\ SF_vars(Lock(t))

\* Add and Report called from one thread, TimeStart and TimeEnd from another
NextR == Step("t1") \/ TimeStart \/ TimeEnd

SpecR == InitT /\ [][NextR]_vars

\* --------------------------------------- the functions on their own
\* Truncate and the loop of createResult applied to inputs the calls of
\* the model do not produce: all small durations, negative and fractional
\* statistics.  Each behaviour applies one function to one input.
Durations == (1 .. MaxDuration) \cup {DefaultInterval}
TruncInstants == (0 - MaxInstant) .. MaxInstant

\* the example of the spec: sum 120000, min 1000, max 5000
ExampleLatency == Statistics(120000, 1000, 1500, 2500, 4999, 5000)
LatencyInputs == {ExampleLatency, Flat(0), Flat(999), Flat(1500)}
NumberInputs == {Flat(0 - 1), Flat(0), Flat(7)}
CountInputs == {0 - 1, 0, 3}
QueryInfos ==
    [Fingerprint : {"Q1"}, Namespace : {<< "test", "coll" >>, << "nodot" >>},
     Count : CountInputs, QueryTime : LatencyInputs,
     ResponseLength : NumberInputs, Returned : NumberInputs,
     Scanned : NumberInputs]
OtherQuery == [Fingerprint |-> "Q2", Namespace |-> << "test", "coll" >>,
               Count |-> 2, QueryTime |-> Flat(2000), ResponseLength |-> Flat(1),
               Returned |-> Flat(1), Scanned |-> Flat(1)]
QueryStatsInputs == {<< q >> : q \in QueryInfos} \cup {<< q, OtherQuery >> : q \in QueryInfos}

ApplyTruncate ==
    /\ calc = NoCalc
    /\ \E t \in TruncInstants, d \in Durations :
         calc' = [f |-> "Truncate", t |-> t, d |-> d, out |-> Truncate(t, d)]
    /\ UNCHANGED <<aggVars, ghostVars, mutex, pc, loc, obs>>

ApplyCreateResult ==
    /\ calc = NoCalc
    /\ \E queryStats \in QueryStatsInputs, build \in Builds :
         calc' = [f |-> "createResult", in |-> queryStats, build |-> build,
                  out |-> BuildResult(queryStats, config, build, EmptyResult)]
    /\ UNCHANGED <<aggVars, ghostVars, mutex, pc, loc, obs>>

InitF == InitAggregator([Interval : {7}, ExampleQueries : BOOLEAN]) /\ InitThreads

NextF == ApplyTruncate \/ ApplyCreateResult

SpecF == InitF /\ [][NextF]_vars

\* ======================================================== properties
\* s is t rounded down to a multiple of d counted from time.Time's zero
IsTruncation(s, t, d) ==
    /\ s <= t
    /\ t < s + d
    /\ (s + ZeroOffsetMod(d)) % d = 0

IsCall == last.op \in {"Add", "Report"}
IsPrefix(p, q) == Len(p) <= Len(q) /\ SubSeq(q, 1, Len(p)) = p
BoundsUnchanged == timeStart = last.pre.timeStart /\ timeEnd = last.pre.timeEnd
\* the bounds are those of the window holding the trigger instant
Rebound == IsTruncation(timeStart, last.ts, D) /\ timeEnd = timeStart + D
DistinctFingerprints(st) == {st[i].fp : i \in 1 .. Len(st)}
\* rep is the report of the window the call found, with exactly its queries
ClosingReport(rep) ==
    /\ rep # NoReport
    /\ rep.StartTs = last.pre.timeStart
    /\ rep.EndTs = last.pre.timeEnd
    /\ {rep.Class[i].Fingerprint : i \in 1 .. Len(rep.Class)}
         = DistinctFingerprints(last.pre.stats)
    /\ Len(rep.Class) = Cardinality(DistinctFingerprints(last.pre.stats))
    /\ \A i \in 1 .. Len(rep.Class) :
         rep.Class[i].TotalQueries = CountOf(last.pre.stats, rep.Class[i].Fingerprint)

\* C1: an Add whose document is timestamped before timeStart returns
\* (nil, nil), does not call the stats engine's Add and leaves timeStart,
\* timeEnd and the stats engine as they were.
C1_LateEventRejected ==
    (last.op = "Add" /\ last.ts < last.pre.timeStart) =>
        /\ last.report = NoReport
        /\ last.err = Nil
        /\ ~last.statsAdd
        /\ BoundsUnchanged
        /\ stats = last.pre.stats

C1_Witness ==
    /\ last.op = "Add"
    /\ last.ts < last.pre.timeStart
    /\ last.pre.stats # << >>

\* C2: for a trigger instant t of Add or Report: t < timeEnd rotates
\* nothing (bounds kept, engine not reset, no report); t >= timeEnd, t equal
\* to timeEnd included, resets the engine and makes the window
\* [truncate(t, D), truncate(t, D) + D).
C2_RotationRule ==
    IsCall =>
        IF last.ts < last.pre.timeEnd
        THEN /\ BoundsUnchanged
             /\ last.report = NoReport
             /\ IsPrefix(last.pre.stats, stats)
        ELSE /\ Rebound
             /\ stats = IF last.statsAdd /\ last.err = Nil
                        THEN << last.doc >> ELSE << >>

C2_Witness ==
    /\ IsCall
    /\ last.ts = last.pre.timeEnd
    /\ last.pre.stats # << >>
    /\ timeStart = last.pre.timeEnd

\* C3: an Add with ts >= timeEnd on a non-empty window returns a report
\* stamped with the bounds before the call and holding exactly the queries
\* accumulated before the call; the triggering document is not in it and is
\* handed to the engine after its reset.
C3_RotateThenAccumulate ==
    (last.op = "Add" /\ last.ts >= last.pre.timeEnd /\ last.pre.stats # << >>) =>
        /\ ClosingReport(last.report)
        /\ last.report.Global.TotalQueries = Len(last.pre.stats)
        /\ last.statsAdd
        /\ stats = IF last.err = Nil THEN << last.doc >> ELSE << >>

C3_Witness ==
    /\ last.op = "Add"
    /\ last.ts >= last.pre.timeEnd
    /\ last.pre.stats # << >>
    /\ last.doc.fp \notin DistinctFingerprints(last.pre.stats)
    /\ stats = << last.doc >>

\* C4: a boundary crossing on an engine without queries returns no report
\* and still moves the window to the trigger instant's truncation; every
\* report returned has at least one class.
C4_EmptyWindowNotReported ==
    /\ (IsCall /\ last.ts >= last.pre.timeEnd /\ last.pre.stats = << >>) =>
           (last.report = NoReport /\ Rebound)
    /\ last.report # NoReport => Len(last.report.Class) >= 1

C4_Witness ==
    /\ last.op = "Report"
    /\ last.ts >= last.pre.timeEnd
    /\ last.pre.stats = << >>
    /\ timeStart > last.pre.timeEnd

\* C5: after New and after every Add and Report, timeEnd - timeStart = D,
\* timeStart <= timeEnd and timeStart is its own truncation to D.
C5_WindowShape ==
    /\ timeEnd - timeStart = D
    /\ timeStart <= timeEnd
    /\ Truncate(timeStart, D) = timeStart
    /\ IsTruncation(timeStart, timeStart, D)

C5_Witness ==
    /\ IsCall
    /\ timeStart # last.pre.timeStart
    /\ last.ts # timeStart

\* C6: a rotation sets timeStart at or after the previous timeEnd, whatever
\* the timestamps and clock readings; the reports returned are stamped with
\* strictly increasing windows that do not overlap.
C6_Monotonic ==
    /\ (IsCall /\ ~BoundsUnchanged) =>
           (timeStart >= last.pre.timeEnd /\ timeEnd > last.pre.timeEnd)
    /\ \A i \in 1 .. Len(reports) : reports[i].StartTs < reports[i].EndTs
    /\ \A i, j \in 1 .. Len(reports) :
           i < j => reports[i].EndTs <= reports[j].StartTs

C6_Witness ==
    /\ Len(reports) >= 2
    /\ last.op = "Report"
    /\ last.ts < last.pre.timeStart

\* C7: with Add and Report called from several threads, at most one call
\* is past Lock at any time and each call leaves what its statements leave
\* when run as one step on the aggregator it locked; no window is reported
\* by two calls, and every accumulated document that is not in a returned
\* report is still in the engine whenever the mutex is free.
InCall == {t \in Threads : pc[t] \notin {"idle"} \cup AtLock}

C7_AtomicCriticalSection ==
    /\ Cardinality(InCall) <= 1
    /\ \A t \in Threads :
         pc[t] = "Unlock" =>
             Result(t) = IF loc[t].op = "Add" THEN Add(loc[t].pre, loc[t].doc)
                         ELSE Report(loc[t].pre, loc[t].ts)
    /\ \A i, j \in 1 .. Len(reports) : i # j => reports[i] # reports[j]
    /\ mutex = Free => unreported = Len(stats)

C7_Witness ==
    \E t, u \in Threads :
        /\ t # u
        /\ pc[t] = "Unlock"
        /\ loc[t].report # NoReport
        /\ pc[u] \in AtLock
        /\ reports # << >>

\* C8: TimeStart and TimeEnd never read while another thread is between
\* the assignments of timeStart and timeEnd, and the pair a reader gets
\* satisfies end = start + D.
C8_AccessorsUnderLock ==
    /\ ~obs.mid
    /\ obs.complete => obs.end = obs.start + D

\* C9: an Add whose stats.Add fails still returns the report of the window
\* it closed, with the error, and has moved the bounds; without a rotation
\* it returns (nil, error) and keeps the bounds.
C9_ErrorKeepsRotation ==
    (last.op = "Add" /\ last.doc.bad /\ last.ts >= last.pre.timeStart) =>
        /\ last.err # Nil
        /\ IF last.ts >= last.pre.timeEnd
           THEN /\ Rebound
                /\ IF last.pre.stats = << >> THEN last.report = NoReport
                   ELSE ClosingReport(last.report)
           ELSE /\ BoundsUnchanged
                /\ last.report = NoReport

C9_Witness ==
    /\ last.op = "Add"
    /\ last.doc.bad
    /\ last.ts >= last.pre.timeEnd
    /\ last.report # NoReport

C11_ReportFlushesCurrentInterval ==
    (last.op = "Report" /\ last.pre.stats # << >>) =>
        /\ ClosingReport(last.report)
        /\ stats = << >>
        /\ Rebound

\* C12 as stated: on a new aggregator, an Add whose document is timestamped
\* before the start given to New returns (nil, nil) and accumulates nothing.
C12_BeforeInitialStartRejected ==
    (last.op = "Add" /\ last.first /\ last.ts < last.initialStart) =>
        /\ last.report = NoReport
        /\ last.err = Nil
        /\ ~last.statsAdd
        /\ stats = << >>

\* C12 amended: on a new aggregator, an Add whose document is timestamped
\* before the truncation to D of the start given to New returns (nil, nil)
\* and accumulates nothing; a document timestamped in
\* [truncate(initialStart, D), initialStart) is handed to the engine.
C12_BeforeFirstWindowRejected ==
    (last.op = "Add" /\ last.first) =>
        /\ last.ts < Truncate(last.initialStart, D) =>
               /\ last.report = NoReport
               /\ last.err = Nil
               /\ ~last.statsAdd
               /\ stats = << >>
        /\ (last.ts >= Truncate(last.initialStart, D) /\ last.ts < last.initialStart) =>
               /\ last.statsAdd
               /\ stats = IF last.err = Nil THEN << last.doc >> ELSE << >>

C12_Witness ==
    /\ last.op = "Add"
    /\ last.first
    /\ last.ts < Truncate(last.initialStart, D)
    /\ ~last.doc.bad

\* C13: the first call whose trigger is at or after timeEnd of a window
\* with accumulated documents returns the report of exactly that window;
\* the documents accepted so far are those counted in the returned reports
\* plus those in the engine, each once.
C13_NothingLost ==
    /\ (IsCall /\ last.ts >= last.pre.timeEnd /\ last.pre.stats # << >>) =>
           ClosingReport(last.report)
    /\ unreported = Len(stats)

C13_Witness ==
    /\ last.op = "Report"
    /\ last.report # NoReport
    /\ Len(last.pre.stats) = 2
    /\ Len(reports) >= 2

\* C15: New with config.Interval = 0 uses 60 seconds and example queries
\* whatever ExampleQueries was given; with another interval it keeps both
\* fields; D is the interval in seconds and the first window is
\* [truncate(start, D), truncate(start, D) + D) on an empty engine.
C15_ConfigDefaults ==
    last.op = "New" =>
        /\ last.cfg.Interval = 0 =>
               config = [Interval |-> 60, ExampleQueries |-> TRUE]
        /\ last.cfg.Interval # 0 => config = last.cfg
        /\ D = config.Interval
        /\ IsTruncation(timeStart, last.ts, D)
        /\ timeEnd = timeStart + D
        /\ stats = << >>

C15_Witness ==
    /\ last.op = "New"
    /\ last.cfg = [Interval |-> 0, ExampleQueries |-> FALSE]
    /\ last.ts # timeStart

\* C19: every document in the engine was added with a timestamp inside
\* the current window, and a report stamped (s, e) holds only documents
\* timestamped in [s, e), also after a rotation that skipped durations.
C19_WindowMembership ==
    /\ \A i \in 1 .. Len(stats) :
           timeStart <= stats[i].ts /\ stats[i].ts < timeEnd
    /\ last.report # NoReport =>
           \A i \in 1 .. Len(last.pre.stats) :
               /\ last.report.StartTs <= last.pre.stats[i].ts
               /\ last.pre.stats[i].ts < last.report.EndTs

C19_Witness ==
    /\ last.op = "Add"
    /\ last.report # NoReport
    /\ timeStart > last.pre.timeEnd
    /\ stats = << last.doc >>

\* C14: in every report the global class counts as many queries as the
\* classes together, every class counts as one unique query, and the
\* classes come in the order of the engine's summaries.
C14_GlobalIsSum ==
    last.report # NoReport =>
        /\ last.report.Global.TotalQueries = SumTotal(last.report.Class)
        /\ last.report.Global.TotalQueries = Len(last.pre.stats)
        /\ Len(last.report.Class) = Len(Queries(last.pre.stats))
        /\ \A i \in 1 .. Len(last.report.Class) :
             /\ last.report.Class[i].UniqueQueries = 1
             /\ last.report.Class[i].Fingerprint
                  = Queries(last.pre.stats)[i].Fingerprint

C14_Witness ==
    /\ last.report # NoReport
    /\ Len(last.report.Class) = 2
    /\ last.report.Global.TotalQueries = 2

\* C16 as stated: truncate(t, d) is the largest multiple of d counted from
\* the Unix epoch that is <= t, also for a d that does not divide a day.
C16_TruncateFromUnixEpoch ==
    calc.f = "Truncate" =>
        /\ calc.out <= calc.t
        /\ calc.t < calc.out + calc.d
        /\ calc.out % calc.d = 0

\* C16 amended: truncate(t, d) is the largest multiple of d counted from
\* time.Time's zero instant (0001-01-01 00:00:00 UTC) that is <= t, so
\* truncate(t, d) <= t < truncate(t, d) + d for every d > 0; it is a
\* multiple of d counted from the Unix epoch when d divides a day.
C16_TruncateFromZeroTime ==
    calc.f = "Truncate" =>
        /\ calc.out <= calc.t
        /\ calc.t < calc.out + calc.d
        /\ (calc.out + ZeroOffsetMod(calc.d)) % calc.d = 0
        /\ SecondsPerDay % calc.d = 0 => calc.out % calc.d = 0

C16_Witness ==
    /\ calc.f = "Truncate"
    /\ calc.d = 7
    /\ calc.t = 7
    /\ calc.out = 3

Max0(x) == IF x < 0 THEN 0 ELSE x
ClampedStats(n, s) ==
    /\ n.Sum = Max0(s.Total)
    /\ n.Min = Max0(s.Min)
    /\ n.Avg = Max0(s.Avg)
    /\ n.Med = Max0(s.Median)
    /\ n.P95 = Max0(s.Pct95)
    /\ n.Max = Max0(s.Max)

\* C17: a negative count or non-latency statistic of a summary is zero in
\* the result; every such value of a result is max(0, input).
C17_NegativeClamped ==
    calc.f = "createResult" =>
        \A i \in 1 .. Len(calc.in) :
            /\ calc.out.Class[i].TotalQueries = Max0(calc.in[i].Count)
            /\ ClampedStats(calc.out.Class[i].Metrics.Bytes_sent, calc.in[i].ResponseLength)
            /\ ClampedStats(calc.out.Class[i].Metrics.Rows_sent, calc.in[i].Returned)
            /\ ClampedStats(calc.out.Class[i].Metrics.Rows_examined, calc.in[i].Scanned)

Truncated(m, x) == m = [whole |-> x \div 1000, thousandths |-> 0]
Exact(m, x) ==
    /\ 1000 * m.whole + m.thousandths = x
    /\ m.thousandths \in 0 .. 999
Latencies(P(_, _), q, s) ==
    /\ P(q.Sum, s.Total)
    /\ P(q.Min, s.Min)
    /\ P(q.Avg, s.Avg)
    /\ P(q.Med, s.Median)
    /\ P(q.P95, s.Pct95)
    /\ P(q.Max, s.Max)
\* the non-latency statistics that are not negative arrive undivided
Undivided(n, s) == s.Total >= 0 => (n.Sum = s.Total /\ n.Max = s.Max /\ n.Min = s.Min)
NumbersUndivided(i) ==
    /\ Undivided(calc.out.Class[i].Metrics.Bytes_sent, calc.in[i].ResponseLength)
    /\ Undivided(calc.out.Class[i].Metrics.Rows_sent, calc.in[i].Returned)
    /\ Undivided(calc.out.Class[i].Metrics.Rows_examined, calc.in[i].Scanned)

\* C18 as stated: every latency statistic of a result is the input divided
\* by 1000 with the fraction cut off; the other metrics are not divided.
C18_LatencyTruncated ==
    calc.f = "createResult" =>
        \A i \in 1 .. Len(calc.in) :
            /\ Latencies(Truncated, calc.out.Class[i].Metrics.Query_time,
                         calc.in[i].QueryTime)
            /\ NumbersUndivided(i)

\* C18 amended: every latency statistic of a result is the input divided
\* by 1000 as a float64, the fraction kept (1500 becomes 1.5; 120000, 1000
\* and 5000 become 120, 1 and 5); the other metrics are not divided.
C18_LatencyDivided ==
    calc.f = "createResult" =>
        \A i \in 1 .. Len(calc.in) :
            /\ Latencies(Exact, calc.out.Class[i].Metrics.Query_time,
                         calc.in[i].QueryTime)
            /\ NumbersUndivided(i)

C18_Witness ==
    /\ calc.f = "createResult"
    /\ calc.in[1].QueryTime = ExampleLatency
    /\ calc.out.Class[1].Metrics.Query_time.Sum = [whole |-> 120, thousandths |-> 0]
    /\ calc.out.Class[1].Metrics.Query_time.Min = [whole |-> 1, thousandths |-> 0]
    /\ calc.out.Class[1].Metrics.Query_time.Max = [whole |-> 5, thousandths |-> 0]
    /\ calc.out.Class[1].Metrics.Query_time.Avg = [whole |-> 1, thousandths |-> 500]

\* C20: a call holds the mutex from Lock to its return and every return
\* releases it; under fair scheduling every call that has started returns.
C20_LockDiscipline ==
    /\ [](\A t \in Threads : pc[t] \notin {"idle"} \cup AtLock => mutex = t)
    /\ []((\A t \in Threads : pc[t] \in {"idle"} \cup AtLock) => mutex = Free)
    /\ \A t \in Threads : (pc[t] # "idle") ~> (pc[t] = "idle")

C20_Witness ==
    \E t, u \in Threads :
        /\ pc[t] = "Unlock"
        /\ loc[t].op = "Add"
        /\ ~loc[t].statsAdd
        /\ pc[u] \in AtLock

====
